---- MODULE Spec2Model ----
(***************************************************************************)
(* svg2typst: the traversal engine of src/main.rs (handle_event) as a      *)
(* state machine.  One action per arm of the `match event` in the loop;    *)
(* the tokenizer (quick_xml) is the environment that picks the next event. *)
(* Coordinates and transform coefficients are integers, where the          *)
(* arithmetic of transform_multiply / apply_transform is exact.            *)
(* Option<T> is a sequence of length 0 (None) or 1 (Some(v)).              *)
(***************************************************************************)
EXTENDS Integers, Sequences, FiniteSets, TLC

\* ------------------------------------------------------------------ bounds
\* Number of events the tokenizer delivers before end-of-stream.
MaxEvents == 3
\* The same, for documents made of groups and rectangles only.
MaxGroupEvents == 5
\* Length of the texts whose escaping is checked exhaustively.
MaxTextLen == 3
\* Number of segments of a path, and of events of a document of paths.
MaxSegments == 4
MaxPathEvents == 2
\* Length of a numeric value as written, number of pieces of a style string,
\* and number of events of a document with attributes as written.
MaxNumLen == 3
MaxPieces == 3
MaxWrittenEvents == 2

\* ------------------------------------------------------------- Option<T>
None == <<>>
Some(v) == <<v>>
IsSome(o) == o # <<>>
Unwrap(o) == o[1]
Last(s) == s[Len(s)]
Front(s) == SubSeq(s, 1, Len(s) - 1)
Min(m, n) == IF m < n THEN m ELSE n

\* ------------------------------------------------------- Affine Transform
Transform(a, b, c, d, e, f) == [a |-> a, b |-> b, c |-> c, d |-> d, e |-> e, f |-> f]

\* A plausible slip: the operands of the product exchanged.
transform_multiply_swapped(ts1, ts2) ==
    [a |-> ts2.a * ts1.a + ts2.c * ts1.b,
     b |-> ts2.b * ts1.a + ts2.d * ts1.b,
     c |-> ts2.a * ts1.c + ts2.c * ts1.d,
     d |-> ts2.b * ts1.c + ts2.d * ts1.d,
     e |-> ts2.a * ts1.e + ts2.c * ts1.f + ts2.e,
     f |-> ts2.b * ts1.e + ts2.d * ts1.f + ts2.f]

transform_multiply(ts1, ts2) ==
    [a |-> ts1.a * ts2.a + ts1.c * ts2.b,
     b |-> ts1.b * ts2.a + ts1.d * ts2.b,
     c |-> ts1.a * ts2.c + ts1.c * ts2.d,
     d |-> ts1.b * ts2.c + ts1.d * ts2.d,
     e |-> ts1.a * ts2.e + ts1.c * ts2.f + ts1.e,
     f |-> ts1.b * ts2.e + ts1.d * ts2.f + ts1.f]

apply_transform(coord, t) ==
    << t.a * coord[1] + t.c * coord[2] + t.e,
       t.b * coord[1] + t.d * coord[2] + t.f >>

\* Transform::default()
IdentityTransform == Transform(1, 0, 0, 1, 0, 0)
\* The root transform main passes, 0.01 * (1, 0, 0, -1, 0, 0), in units of 0.01.
FlipTransform == Transform(1, 0, 0, -1, 0, 0)
RootTransforms == {IdentityTransform, FlipTransform}

\* Values of a `transform` attribute after Transform::from_str: Some(t), or
\* None when the attribute does not parse (the `?` then returns the error).
TranslateTransform == Transform(1, 0, 0, 1, 3, 1)
ScaleTransform == Transform(2, 0, 0, 3, 0, 0)
GroupTransforms == {TranslateTransform, ScaleTransform}
TransformValues == {None} \cup {Some(t) : t \in GroupTransforms}

\* ------------------------------------------------------------ Style Record
SvgStyle(fill, fill_rule, stroke_width, stroke, font_family, font_size, dash_array) ==
    [fill |-> fill, fill_rule |-> fill_rule, stroke_width |-> stroke_width,
     stroke |-> stroke, font_family |-> font_family, font_size |-> font_size,
     dash_array |-> dash_array]

\* SvgStyle::default()
DefaultStyle == SvgStyle(None, None, None, None, None, None, None)

\* --------------------------------------------------------- Context Stack
EventEntry(name, transform, positions, style) ==
    [name |-> name, transform |-> transform, positions |-> positions, style |-> style]

RootEntry(root) == EventEntry("root", root, None, None)

VARIABLES
    root_transform,  \* handle_event's parameter
    events_stack,    \* Vec<EventEntry>
    emitted,         \* what the latest loop iteration printed, as primitives
    status,          \* "running" | "ok" (Ok(())) | "error" (Err) | "panic"
    error,           \* which error ended the traversal
    nread,           \* events read so far
    limit,           \* length of the event stream (end-of-stream comes no later)
    event,           \* history: the event the latest iteration handled
    pre_stack,       \* history: events_stack before that event
    nest,            \* history: the elements of the document that are open
    closed,          \* history: the open element the latest End closed, if any
    balanced         \* history: every End so far closed the innermost open element

vars == <<root_transform, events_stack, emitted, status, error, nread, limit, event,
          pre_stack, nest, closed, balanced>>

\* handle_event before its loop: the stack holds the root entry.
Start(n) ==
    /\ root_transform \in RootTransforms
    /\ events_stack = <<RootEntry(root_transform)>>
    /\ emitted = <<>>
    /\ status = "running"
    /\ error = "none"
    /\ nread = 0
    /\ limit = n
    /\ event = [kind |-> "None"]
    /\ pre_stack = <<>>
    /\ nest = <<>>
    /\ closed = None
    /\ balanced = TRUE

Init == Start(MaxEvents)

\* The result of one loop iteration: the stack, what was printed, and how the
\* iteration left the loop (still running, or ended by `?`, bail!, a panic).
Step(stack, out, st, err) == [stack |-> stack, out |-> out, status |-> st, error |-> err]
Continue(stack, out) == Step(stack, out, "running", "none")
Fail(stack, out, err) == Step(stack, out, "error", err)
Panic(stack, out) == Step(stack, out, "panic", "unwrap on None")

\* An element that opens: its name, the stack before it, its own transform.
Opened(name, own) ==
    [name |-> name, depth |-> Len(events_stack),
     top |-> IF events_stack = <<>> THEN None ELSE Some(Last(events_stack).transform),
     own |-> own]

\* Commits one loop iteration that read event ev.
Commit(ev, r, nest2, balanced2) ==
    /\ status = "running"
    /\ nread < limit
    /\ nread' = nread + 1
    /\ event' = ev
    /\ pre_stack' = events_stack
    /\ events_stack' = r.stack
    /\ emitted' = r.out
    /\ status' = r.status
    /\ error' = r.error
    /\ nest' = nest2
    /\ balanced' = balanced2
    /\ closed' = IF ev.kind = "End" /\ Len(nest2) < Len(nest) THEN Some(Last(nest)) ELSE None
    /\ UNCHANGED <<root_transform, limit>>

\* ------------------------------------------------------------ Event::Eof
\* A plausible slip: end-of-stream with elements still open is an error.
Eof_closed_only ==
    /\ status = "running"
    /\ status' = IF Len(events_stack) = 1 THEN "ok" ELSE "error"
    /\ event' = [kind |-> "Eof"]
    /\ pre_stack' = events_stack
    /\ emitted' = <<>>
    /\ closed' = None
    /\ UNCHANGED <<root_transform, events_stack, error, nread, limit, nest, balanced>>

Eof ==
    /\ status = "running"
    /\ status' = "ok"
    /\ event' = [kind |-> "Eof"]
    /\ pre_stack' = events_stack
    /\ emitted' = <<>>
    /\ closed' = None
    /\ UNCHANGED <<root_transform, events_stack, error, nread, limit, nest, balanced>>

\* ------------------------------------------------------------ Event::End
\* A plausible slip: a close pops every trailing entry of that name.
RECURSIVE pop_while_name(_, _)
pop_while_name(stack, name) ==
    IF stack # <<>> /\ Last(stack).name = name
    THEN pop_while_name(Front(stack), name)
    ELSE stack

\* Vec::pop_if: pops the last entry when the predicate holds of it.
pop_if_name(stack, name) ==
    IF stack # <<>> /\ Last(stack).name = name THEN Front(stack) ELSE stack

EndNames == {"g", "text", "tspan", "svg", "root"}

End(name) ==
    LET closes == nest # <<>> /\ Last(nest).name = name IN
    Commit([kind |-> "End", name |-> name],
           Continue(pop_if_name(events_stack, name), <<>>),
           IF closes THEN Front(nest) ELSE nest,
           balanced /\ closes)

\* ------------------------------------------------- Event::Start, name "g"
TAttr(v) == [key |-> "transform", val |-> v]
OAttr(k) == [key |-> k, val |-> None]

\* The attribute lists of a <g>: none, one or two attributes, the transform
\* first, last or missing.  XML allows each attribute name once.
GAttrLists ==
    {<<>>, <<OAttr("id")>>, <<OAttr("id"), OAttr("class")>>}
    \cup {<<TAttr(v)>> : v \in TransformValues}
    \cup {<<TAttr(v), OAttr("id")>> : v \in TransformValues}
    \cup {<<OAttr("id"), TAttr(v)>> : v \in TransformValues}

\* `for attr_result in element.attributes() { ... events_stack.push(..) }`:
\* the push is inside the loop, one entry per attribute.
RECURSIVE g_attributes(_, _)
g_attributes(stack, attrs) ==
    IF attrs = <<>> THEN Continue(stack, <<>>)
    ELSE IF stack = <<>> THEN Panic(stack, <<>>)
    ELSE LET a == Head(attrs)
             cur == Last(stack).transform
         IN  IF a.key = "transform"
             THEN IF a.val = None
                  THEN Fail(stack, <<>>, "MalformedTransform")
                  ELSE g_attributes(
                           Append(stack, EventEntry("g",
                               transform_multiply(cur, Unwrap(a.val)), None, None)),
                           Tail(attrs))
             ELSE g_attributes(Append(stack, EventEntry("g", cur, None, None)),
                               Tail(attrs))

\* The transform attribute of an attribute list, if it has one.
OwnTransform(attrs) ==
    LET ts == SelectSeq(attrs, LAMBDA a : a.key = "transform") IN
    IF ts = <<>> THEN None ELSE ts[1].val

StartG(attrs) ==
    Commit([kind |-> "Start", name |-> "g", attrs |-> attrs],
           g_attributes(events_stack, attrs),
           Append(nest, Opened("g", OwnTransform(attrs))),
           balanced)

\* ---------------------------------------------- Event::Start, name "text"
\* Attribute values are given as parsed: Some(n) for a numeric attribute that
\* is present, None for one that is missing (the variable keeps its default).
FontFamily == <<"'", "Courier", "'", ", monospace">>
FontStyle == SvgStyle(Some("red"), None, None, None, Some(FontFamily), Some(10), None)
NoFillFontStyle == SvgStyle(Some("none"), None, None, None, None, Some(12), None)
TextStyleAttrs == {None, Some(FontStyle), Some(NoFillFontStyle)}
TextAttrs ==
    {[x |-> Some(5), y |-> Some(7), style |-> s] : s \in TextStyleAttrs}
    \cup {[x |-> None, y |-> None, style |-> None]}

OrDefault(o, d) == IF IsSome(o) THEN Unwrap(o) ELSE d

text_start(stack, attrs) ==
    IF stack = <<>> THEN Panic(stack, <<>>)
    ELSE Continue(
             Append(stack,
                 EventEntry("text", Last(stack).transform,
                     Some(<< <<OrDefault(attrs.x, 0), OrDefault(attrs.y, 0)>> >>),
                     attrs.style)),
             <<>>)

StartText(attrs) ==
    Commit([kind |-> "Start", name |-> "text", attrs |-> attrs],
           text_start(events_stack, attrs),
           Append(nest, Opened("text", None)),
           balanced)

\* --------------------------------------------- Event::Start, name "tspan"
\* x and y are whitespace-separated lists; a missing attribute leaves the
\* empty Vec.
TspanAttrs ==
    {[x |-> None, y |-> None],
     [x |-> Some(<<4>>), y |-> None],
     [x |-> Some(<<>>), y |-> Some(<<6>>)],
     [x |-> Some(<<4>>), y |-> Some(<<6>>)],
     [x |-> Some(<<0, 10>>), y |-> Some(<<1, 1, 1>>)],
     [x |-> Some(<<0, 10, 20>>), y |-> Some(<<0, 0, 0>>)]}

\* x.iter().zip(y.iter())
zip(xs, ys) == [i \in 1..Min(Len(xs), Len(ys)) |-> <<xs[i], ys[i]>>]

\* A plausible slip: only the entry on top is asked for its style.
nearest_style_top_only(stack) ==
    IF stack = <<>> THEN None ELSE Last(stack).style

\* `for e in events_stack.iter().rev()`: the style of the nearest entry, from
\* the top, that carries one.
RECURSIVE nearest_style(_)
nearest_style(stack) ==
    IF stack = <<>> THEN None
    ELSE IF IsSome(Last(stack).style) THEN Last(stack).style
    ELSE nearest_style(Front(stack))

tspan_start(stack, attrs) ==
    IF stack = <<>> THEN Panic(stack, <<>>)
    ELSE Continue(
             Append(stack,
                 EventEntry("tspan", Last(stack).transform,
                     Some(zip(OrDefault(attrs.x, <<>>), OrDefault(attrs.y, <<>>))),
                     nearest_style(stack))),
             <<>>)

StartTspan(attrs) ==
    Commit([kind |-> "Start", name |-> "tspan", attrs |-> attrs],
           tspan_start(events_stack, attrs),
           Append(nest, Opened("tspan", None)),
           balanced)

\* ------------------------------------------ Event::Start, any other name
OtherNames == {"svg", "root"}

StartOther(name) ==
    Commit([kind |-> "Start", name |-> name],
           Continue(events_stack, <<>>),
           Append(nest, Opened(name, None)),
           balanced)

\* ------------------------------------------------------------ gen_content
\* font_scale, in units of 0.01 (main passes 0.27).
font_scale == 27

\* A text is a sequence of bytes, each written as a one-character string; the
\* two bytes of a non-ASCII character are written "C3" and "A9".
AsciiBytes == {"A", "B", "x", "y", "z", "w", "$", "[", "]", "/", "#", "\\"}
IsAscii(b) == b \in AsciiBytes

\* str::replace with a one-character pattern.
RECURSIVE replace(_, _, _)
replace(s, from, to) ==
    IF s = <<>> THEN <<>>
    ELSE (IF Head(s) = from THEN to ELSE <<Head(s)>>) \o replace(Tail(s), from, to)

\* A plausible slip: a last rule that escapes the backslash itself.
escape_text_backslash_last(text_content) ==
    replace(
        replace(
            replace(
                replace(
                    replace(
                        replace(text_content, "$", <<"\\", "$">>),
                        "[", <<"\\", "[">>),
                    "]", <<"\\", "]">>),
                "/", <<"\\", "/">>),
            "#", <<"\\", "#">>),
        "\\", <<"\\", "\\">>)

\* text_content.replace("$", "\\$").replace("[", "\\[") ... .replace("#", "\\#")
escape_text(text_content) ==
    replace(
        replace(
            replace(
                replace(
                    replace(text_content, "$", <<"\\", "$">>),
                    "[", <<"\\", "[">>),
                "]", <<"\\", "]">>),
            "/", <<"\\", "/">>),
        "#", <<"\\", "#">>)

\* font_family.replace("'", "\"").replace(", monospace", ""), on tokens.
format_font(font_family) ==
    replace(replace(font_family, "'", <<"\"">>), ", monospace", <<>>)

\* The text(...) part of a content primitive; None when no style is given.
text_style(style) ==
    IF style = None THEN None
    ELSE LET s == Unwrap(style) IN
         Some([size |-> IF IsSome(s.font_size)
                        THEN Some(Unwrap(s.font_size) * font_scale) ELSE None,
               font |-> IF IsSome(s.font_family)
                        THEN Some(format_font(Unwrap(s.font_family))) ELSE None,
               fill |-> IF IsSome(s.fill) /\ Unwrap(s.fill) # "none"
                        THEN s.fill ELSE None])

gen_content(pos, style, text_content) ==
    [kind |-> "content", pos |-> pos, anchor |-> "south-west",
     text_style |-> text_style(style), text |-> escape_text(text_content)]

\* ----------------------------------------------------------- Event::Text
Contents ==
    {<<"A">>, <<"A", "$", "B">>, <<"x", "y", "z">>, <<"x", "y", "z", "w">>,
     <<"C3", "A9">>, <<"x", "C3", "A9">>}

\* `events_stack.iter().rev().find(|i| i.name == b"text" || i.name == b"tspan")`
RECURSIVE find_text_parent(_)
find_text_parent(stack) ==
    IF stack = <<>> THEN None
    ELSE IF Last(stack).name \in {"text", "tspan"} THEN Some(Last(stack))
    ELSE find_text_parent(Front(stack))

\* `for (ch, pos) in text_content.iter().zip(positions.iter())`: one content
\* per byte; str::from_utf8(&[*ch])? ends the traversal at a byte that is not
\* ASCII, after the earlier bytes were printed.
RECURSIVE tspan_chars(_, _, _, _, _, _)
tspan_chars(stack, text_content, positions, style, i, out) ==
    IF i > Min(Len(text_content), Len(positions)) THEN Continue(stack, out)
    ELSE IF ~IsAscii(text_content[i]) THEN Fail(stack, out, "Utf8Error")
    ELSE tspan_chars(stack, text_content, positions, style, i + 1,
             Append(out, gen_content(
                 apply_transform(positions[i], Last(stack).transform),
                 style, <<text_content[i]>>)))

\* A plausible slip: the anchor transformed by the container's own transform.
text_whole_parent(stack, parent, text_content) ==
    Continue(stack,
        <<gen_content(apply_transform(Unwrap(parent.positions)[1], parent.transform),
                      parent.style, text_content)>>)

\* One content holding the whole string, at the first anchor.
text_whole(stack, parent, text_content) ==
    Continue(stack,
        <<gen_content(apply_transform(Unwrap(parent.positions)[1],
                                      Last(stack).transform),
                      parent.style, text_content)>>)

\* A plausible slip: an empty anchor list falls back to the first anchor of
\* an enclosing entry that has one.
text_no_positions_fallback(stack, parent, text_content) ==
    LET anchored == SelectSeq(stack,
            LAMBDA e : IsSome(e.positions) /\ Unwrap(e.positions) # <<>>)
    IN  IF anchored = <<>> THEN Fail(stack, <<>>, "MissingTextAnchor")
        ELSE Continue(stack,
                 <<gen_content(apply_transform(Unwrap(Last(anchored).positions)[1],
                                               Last(stack).transform),
                               parent.style, text_content)>>)

\* `bail!("No positions found for text!")`
text_no_positions(stack, parent, text_content) ==
    Fail(stack, <<>>, "MissingTextAnchor")

\* A plausible slip: text outside any container is skipped.
text_no_parent_skip(stack, text_content) == Continue(stack, <<>>)

\* `return Err(anyhow!("Can't find parent for text ..."))`
text_no_parent(stack, text_content) == Fail(stack, <<>>, "MissingTextContainer")

\* The tspan branch with more than one position.
tspan_split(stack, parent, text_content) ==
    tspan_chars(stack, text_content, Unwrap(parent.positions), parent.style, 1, <<>>)

text_event(stack, text_content) ==
    LET found == find_text_parent(stack) IN
    IF found = None THEN text_no_parent(stack, text_content)
    ELSE LET parent == Unwrap(found) IN
         IF ~(IsSome(parent.positions) /\ Unwrap(parent.positions) # <<>>)
         THEN text_no_positions(stack, parent, text_content)
         ELSE IF parent.name = "text" THEN text_whole(stack, parent, text_content)
         ELSE IF Len(Unwrap(parent.positions)) > 1
              THEN tspan_split(stack, parent, text_content)
              ELSE text_whole(stack, parent, text_content)

Text(text_content) ==
    Commit([kind |-> "Text", content |-> text_content],
           text_event(events_stack, text_content),
           nest, balanced)

\* ------------------------------------------- format_fill / format_stroke
\* What format_fill prints: `fill: <paint>, ` (Some(paint)) or nothing (None).
format_fill(style) == style.fill

\* What format_stroke prints: the descriptor `stroke: (paint, thickness, dash)`
\* with the subfields that are present, or the marker `stroke: none`.
format_stroke(style) ==
    IF IsSome(style.stroke) \/ IsSome(style.stroke_width) \/ IsSome(style.dash_array)
    THEN Some([marker |-> "stroke", paint |-> style.stroke,
               thickness |-> style.stroke_width, dashed |-> IsSome(style.dash_array)])
    ELSE Some([marker |-> "none", paint |-> None, thickness |-> None, dashed |-> FALSE])

\* `if let Some(style) = &style { style.format_fill(); style.format_stroke(); }`
opt_fill(style) == IF IsSome(style) THEN format_fill(Unwrap(style)) ELSE None
opt_stroke(style) == IF IsSome(style) THEN format_stroke(Unwrap(style)) ELSE None

\* ---------------------------------------------------------- Event::Empty
\* The style attribute of a shape, as parsed by SvgStyle::from_str: missing,
\* empty, fill only, stroke without fill, fill "none" with a stroke, dash only.
EmptyStyle == DefaultStyle
FillStyle == SvgStyle(Some("red"), None, None, None, None, None, None)
StrokeStyle == SvgStyle(None, None, Some(2), Some("blue"), None, None, None)
NoFillStrokeStyle == SvgStyle(Some("none"), None, Some(1), Some("black"), None, None, None)
FillDashStyle == SvgStyle(Some("red"), Some("evenodd"), None, None, None, None, Some("4 2"))
ShapeStyles == {EmptyStyle, FillStyle, StrokeStyle, NoFillStrokeStyle, FillDashStyle}
ShapeStyleAttrs == {None} \cup {Some(s) : s \in ShapeStyles}

RectAttrs ==
    {[x |-> Some(1), y |-> Some(2), width |-> Some(100), height |-> Some(50), style |-> s] :
        s \in ShapeStyleAttrs}
    \cup {[x |-> None, y |-> None, width |-> None, height |-> None, style |-> None]}

\* `let mut style = Default::default()` is an SvgStyle here: a rect with no
\* style attribute formats the default style.
rect(parent, attrs) ==
    LET x == OrDefault(attrs.x, 0)
        y == OrDefault(attrs.y, 0)
        width == OrDefault(attrs.width, 0)
        height == OrDefault(attrs.height, 0)
        style == OrDefault(attrs.style, DefaultStyle)
    IN  <<[kind |-> "rect",
           p1 |-> apply_transform(<<x, y>>, parent.transform),
           p2 |-> apply_transform(<<x + width, y + height>>, parent.transform),
           fill |-> format_fill(style),
           stroke |-> format_stroke(style)]>>

CircleAttrs ==
    {[cx |-> Some(10), cy |-> Some(10), r |-> Some(5), style |-> s] : s \in ShapeStyleAttrs}

\* `let mut style = Default::default()` is an Option<SvgStyle> here: None when
\* the circle has no style attribute.
circle(parent, attrs) ==
    LET cx == OrDefault(attrs.cx, 0)
        cy == OrDefault(attrs.cy, 0)
        r == OrDefault(attrs.r, 0)
        c1 == apply_transform(<<cx, cy>>, parent.transform)
        r1 == apply_transform(<<cx + r, cy + r>>, parent.transform)
    IN  <<[kind |-> "circle", center |-> c1, radius |-> <<r1[1] - c1[1]>>,
           fill |-> opt_fill(attrs.style), stroke |-> opt_stroke(attrs.style)]>>

EllipseAttrs ==
    {[cx |-> Some(10), cy |-> Some(20), rx |-> Some(5), ry |-> Some(3), style |-> s] :
        s \in ShapeStyleAttrs}

ellipse(parent, attrs) ==
    LET cx == OrDefault(attrs.cx, 0)
        cy == OrDefault(attrs.cy, 0)
        rx == OrDefault(attrs.rx, 0)
        ry == OrDefault(attrs.ry, 0)
        c1 == apply_transform(<<cx, cy>>, parent.transform)
        r1 == apply_transform(<<cx + rx, cy + ry>>, parent.transform)
    IN  <<[kind |-> "circle", center |-> c1,
           radius |-> <<r1[1] - c1[1], r1[2] - c1[2]>>,
           fill |-> opt_fill(attrs.style), stroke |-> opt_stroke(attrs.style)]>>

\* The segments SimplifyingPathParser yields for a `d` attribute.
MoveTo(x, y) == [op |-> "MoveTo", x |-> x, y |-> y]
LineTo(x, y) == [op |-> "LineTo", x |-> x, y |-> y]
CurveTo(x1, y1, x2, y2, x, y) ==
    [op |-> "CurveTo", x1 |-> x1, y1 |-> y1, x2 |-> x2, y2 |-> y2, x |-> x, y |-> y]
ClosePath == [op |-> "ClosePath"]

PathDs ==
    {<<>>,
     <<MoveTo(0, 0), LineTo(10, 0), LineTo(10, 10)>>,
     <<MoveTo(1, 1), CurveTo(2, 3, 4, 5, 6, 7), ClosePath, LineTo(8, 9)>>}
PathAttrs == {[d |-> Some(d), style |-> s] : d \in PathDs, s \in ShapeStyleAttrs}

\* A plausible slip: any fill paint, "none" included, merges the path.
merges_any_fill(style) == IsSome(style) /\ IsSome(Unwrap(style).fill)

\* `if let Some(style) = &style && let Some(fill) = &style.fill && fill != "none"`
merges(style) ==
    IsSome(style) /\ IsSome(Unwrap(style).fill) /\ Unwrap(Unwrap(style).fill) # "none"

\* A plausible slip: a line does not move the running current point.
RECURSIVE path_segments_stale(_, _, _, _, _)
path_segments_stale(parent, segments, style, i, last_point) ==
    IF i > Len(segments) THEN <<>>
    ELSE LET s == segments[i] IN
         CASE s.op = "MoveTo" ->
                  path_segments_stale(parent, segments, style, i + 1,
                                      apply_transform(<<s.x, s.y>>, parent.transform))
           [] s.op = "LineTo" ->
                  LET p == apply_transform(<<s.x, s.y>>, parent.transform) IN
                  <<[kind |-> "line", p1 |-> last_point, p2 |-> p,
                     stroke |-> opt_stroke(style)]>>
                  \o path_segments_stale(parent, segments, style, i + 1, last_point)
           [] s.op = "CurveTo" ->
                  LET c1 == apply_transform(<<s.x1, s.y1>>, parent.transform)
                      c2 == apply_transform(<<s.x2, s.y2>>, parent.transform)
                      p == apply_transform(<<s.x, s.y>>, parent.transform)
                  IN  <<[kind |-> "bezier", p1 |-> last_point, p2 |-> p,
                         ctrl1 |-> c1, ctrl2 |-> c2, stroke |-> opt_stroke(style)]>>
                      \o path_segments_stale(parent, segments, style, i + 1, p)
           [] s.op = "ClosePath" ->
                  path_segments_stale(parent, segments, style, i + 1, last_point)

\* A plausible slip: a close returns the running current point to the start
\* of the subpath, the target of the latest move.
RECURSIVE path_segments_close_returns(_, _, _, _, _)
path_segments_close_returns(parent, segments, style, i, last_point) ==
    IF i > Len(segments) THEN <<>>
    ELSE LET s == segments[i] IN
         CASE s.op = "MoveTo" ->
                  path_segments_close_returns(parent, segments, style, i + 1,
                      apply_transform(<<s.x, s.y>>, parent.transform))
           [] s.op = "LineTo" ->
                  LET p == apply_transform(<<s.x, s.y>>, parent.transform) IN
                  <<[kind |-> "line", p1 |-> last_point, p2 |-> p,
                     stroke |-> opt_stroke(style)]>>
                  \o path_segments_close_returns(parent, segments, style, i + 1, p)
           [] s.op = "CurveTo" ->
                  LET c1 == apply_transform(<<s.x1, s.y1>>, parent.transform)
                      c2 == apply_transform(<<s.x2, s.y2>>, parent.transform)
                      p == apply_transform(<<s.x, s.y>>, parent.transform)
                  IN  <<[kind |-> "bezier", p1 |-> last_point, p2 |-> p,
                         ctrl1 |-> c1, ctrl2 |-> c2, stroke |-> opt_stroke(style)]>>
                      \o path_segments_close_returns(parent, segments, style, i + 1, p)
           [] s.op = "ClosePath" ->
                  LET moves == {j \in 1..i : segments[j].op = "MoveTo"}
                      m == CHOOSE j \in moves : \A k \in moves : k <= j
                  IN  path_segments_close_returns(parent, segments, style, i + 1,
                          IF moves = {} THEN last_point
                          ELSE apply_transform(<<segments[m].x, segments[m].y>>,
                                               parent.transform))

\* `for s in segments`: the primitives printed from segment i on, with the
\* running current point last_point.
RECURSIVE path_segments(_, _, _, _, _)
path_segments(parent, segments, style, i, last_point) ==
    IF i > Len(segments) THEN <<>>
    ELSE LET s == segments[i] IN
         CASE s.op = "MoveTo" ->
                  path_segments(parent, segments, style, i + 1,
                                apply_transform(<<s.x, s.y>>, parent.transform))
           [] s.op = "LineTo" ->
                  LET p == apply_transform(<<s.x, s.y>>, parent.transform) IN
                  <<[kind |-> "line", p1 |-> last_point, p2 |-> p,
                     stroke |-> opt_stroke(style)]>>
                  \o path_segments(parent, segments, style, i + 1, p)
           [] s.op = "CurveTo" ->
                  LET c1 == apply_transform(<<s.x1, s.y1>>, parent.transform)
                      c2 == apply_transform(<<s.x2, s.y2>>, parent.transform)
                      p == apply_transform(<<s.x, s.y>>, parent.transform)
                  IN  <<[kind |-> "bezier", p1 |-> last_point, p2 |-> p,
                         ctrl1 |-> c1, ctrl2 |-> c2, stroke |-> opt_stroke(style)]>>
                      \o path_segments(parent, segments, style, i + 1, p)
           [] s.op = "ClosePath" ->
                  path_segments(parent, segments, style, i + 1, last_point)

\* `merge-path(<fill><stroke>{` ... `})` around the segments of a merged path.
path(parent, attrs) ==
    IF attrs.d = None THEN <<>>
    ELSE LET body == path_segments(parent, Unwrap(attrs.d), attrs.style, 1, <<0, 0>>) IN
         IF merges(attrs.style)
         THEN <<[kind |-> "merge-path", fill |-> opt_fill(attrs.style),
                 stroke |-> opt_stroke(attrs.style)]>>
              \o body \o <<[kind |-> "merge-end"]>>
         ELSE body

\* `let parent = events_stack.last().unwrap()` comes first, for every name.
empty_event(stack, name, attrs) ==
    IF stack = <<>> THEN Panic(stack, <<>>)
    ELSE LET parent == Last(stack) IN
         CASE name = "rect" -> Continue(stack, rect(parent, attrs))
           [] name = "path" -> Continue(stack, path(parent, attrs))
           [] name = "ellipse" -> Continue(stack, ellipse(parent, attrs))
           [] name = "circle" -> Continue(stack, circle(parent, attrs))
           [] OTHER -> Continue(stack, <<>>)

Empty(name, attrs) ==
    Commit([kind |-> "Empty", name |-> name, attrs |-> attrs],
           empty_event(events_stack, name, attrs),
           nest, balanced)

EmptyOtherNames == {"use", "g"}

\* ------------------------------------------- any other event (`_ => debug!`)
OtherEvent ==
    Commit([kind |-> "Other"], Continue(events_stack, <<>>), nest, balanced)

Next ==
    \/ \E attrs \in GAttrLists : StartG(attrs)
    \/ \E attrs \in TextAttrs : StartText(attrs)
    \/ \E attrs \in TspanAttrs : StartTspan(attrs)
    \/ \E name \in OtherNames : StartOther(name)
    \/ \E name \in EndNames : End(name)
    \/ \E c \in Contents : Text(c)
    \/ \E attrs \in RectAttrs : Empty("rect", attrs)
    \/ \E attrs \in CircleAttrs : Empty("circle", attrs)
    \/ \E attrs \in EllipseAttrs : Empty("ellipse", attrs)
    \/ \E attrs \in PathAttrs : Empty("path", attrs)
    \/ \E name \in EmptyOtherNames : Empty(name, [style |-> None])
    \/ OtherEvent
    \/ Eof

Spec == Init /\ [][Next]_vars

\* Documents of nested groups and rectangles: every shape of attribute list,
\* each transform, over longer event streams.
GroupDocAttrLists ==
    {<<>>, <<TAttr(Some(TranslateTransform))>>,
     <<TAttr(Some(ScaleTransform)), OAttr("id")>>,
     <<OAttr("id"), TAttr(Some(TranslateTransform))>>}
GroupDocRect == [x |-> Some(1), y |-> Some(2), width |-> Some(100), height |-> Some(50),
                 style |-> None]

InitGroups == Start(MaxGroupEvents)

NextGroups ==
    \/ \E attrs \in GroupDocAttrLists : StartG(attrs)
    \/ End("g")
    \/ Empty("rect", GroupDocRect)
    \/ Eof

SpecGroups == InitGroups /\ [][NextGroups]_vars

\* The loop reads the next event as long as it runs: the tokenizer always
\* delivers one, the end-of-stream event at the latest.
SpecGroupsFair == SpecGroups /\ WF_vars(NextGroups)

\* transform_multiply and apply_transform on their own: an outer and an inner
\* transform and a point are drawn from bounded integers, and one step maps
\* the point through the product.
LinearCoefs == {-1, 0, 2}
TranslationCoefs == {0, 3}
ComposeTransforms ==
    {Transform(a, b, c, d, e, f) :
        a \in LinearCoefs, b \in LinearCoefs, c \in LinearCoefs, d \in LinearCoefs,
        e \in TranslationCoefs, f \in TranslationCoefs}
ComposePoints == {<<x, y>> : x \in {-1, 2}, y \in {-1, 2}}

InitCompose ==
    /\ root_transform \in ComposeTransforms
    /\ events_stack = <<RootEntry(root_transform)>>
    /\ emitted = <<>>
    /\ status = "running"
    /\ error = "none"
    /\ nread = 0
    /\ limit = 0
    /\ event \in {[kind |-> "Compose", inner |-> t, point |-> p] :
                      t \in ComposeTransforms, p \in ComposePoints}
    /\ pre_stack = <<>>
    /\ nest = <<>>
    /\ closed = None
    /\ balanced = TRUE

\* apply_transform(point, transform_multiply(outer, inner))
ApplyComposed ==
    /\ event.kind = "Compose"
    /\ emitted = <<>>
    /\ emitted' = <<apply_transform(event.point,
                        transform_multiply(root_transform, event.inner))>>
    /\ UNCHANGED <<root_transform, events_stack, status, error, nread, limit, event,
                   pre_stack, nest, closed, balanced>>

NextCompose == ApplyComposed

SpecCompose == InitCompose /\ [][NextCompose]_vars

\* Documents of paths inside transformed groups: every sequence of segments
\* that starts with a move, with no style, a filled and an unfilled style; the
\* path is the last element of its document.
PathSegments == {MoveTo(1, 1), LineTo(10, 0), CurveTo(2, 3, 4, 5, 6, 7), ClosePath}
PathSeqs ==
    {<<>>} \cup {<<MoveTo(1, 1)>> \o t :
                    t \in UNION {[1..n -> PathSegments] : n \in 0..(MaxSegments - 1)}}
PathDocStyles == {None, Some(FillDashStyle), Some(StrokeStyle)}
PathDocAttrs == {[d |-> Some(d), style |-> st] : d \in PathSeqs, st \in PathDocStyles}

InitPaths == Start(MaxPathEvents)

NextPaths ==
    \/ \E t \in GroupTransforms : event.kind # "Empty" /\ StartG(<<TAttr(Some(t))>>)
    \/ event.kind # "Empty" /\ End("g")
    \/ \E attrs \in PathDocAttrs : event.kind # "Empty" /\ Empty("path", attrs)
    \/ Eof

SpecPaths == InitPaths /\ [][NextPaths]_vars

\* ------------------------------------------- attribute values as written
\* An attribute value as the document writes it: the sequence of its tokens,
\* each one character, or one word (a key, a paint) that the code only
\* compares or copies as a whole.
Digits == {"1", "2"}
DigitValue(c) == IF c = "1" THEN 1 ELSE 2

RECURSIVE Decimal(_)
Decimal(s) == IF s = <<>> THEN 0 ELSE 10 * Decimal(Front(s)) + DigitValue(Last(s))

\* f64::from_str: Some(n), or None for Err(ParseFloatError).
f64_from_str(s) ==
    IF s # <<>> /\ \A i \in 1..Len(s) : s[i] \in Digits THEN Some(Decimal(s)) ELSE None

\* str::ends_with("px")
ends_with_px(s) == Len(s) >= 2 /\ s[Len(s) - 1] = "p" /\ s[Len(s)] = "x"
\* `&value[..value.len() - 2]`, for a value of two bytes or more.
strip_two(s) == SubSeq(s, 1, Len(s) - 2)

\* `if v.ends_with("px") { f64::from_str(&v[0..v.len() - 2]) } else { f64::from_str(v) }`
px_from_str(s) == IF ends_with_px(s) THEN f64_from_str(strip_two(s)) ELSE f64_from_str(s)

\* str::split with a one-character pattern.
RECURSIVE split(_, _)
split(s, sep) ==
    IF \A i \in 1..Len(s) : s[i] # sep THEN <<s>>
    ELSE LET k == CHOOSE i \in 1..Len(s) : s[i] = sep /\ \A j \in 1..(i - 1) : s[j] # sep
         IN  <<SubSeq(s, 1, k - 1)>> \o split(SubSeq(s, k + 1, Len(s)), sep)

\* str::split_whitespace
split_whitespace(s) == SelectSeq(split(s, " "), LAMBDA i : i # <<>>)

\* ------------------------------------------------------ SvgStyle::from_str
\* The result of a parse: Ok(value), Err(error), or a panic.
Parsed(v) == [status |-> "ok", value |-> v, error |-> "none"]
ParseErr(e) == [status |-> "error", value |-> None, error |-> e]
ParsePanic(msg) == [status |-> "panic", value |-> None, error |-> msg]

\* One `key:value` piece of a style string, applied to the record r.
style_kv(r, kv_str) ==
    LET parts == split(kv_str, ":") IN
    IF Len(parts) >= 2
    THEN LET key == parts[1]
             value == parts[2]
         IN  CASE key = <<"fill">> -> Parsed([r EXCEPT !.fill = Some(value)])
               [] key = <<"fill-rule">> -> Parsed([r EXCEPT !.fill_rule = Some(value)])
               [] key = <<"stroke-width">> ->
                      IF Len(value) < 2 THEN ParsePanic("slice index out of range")
                      ELSE LET n == f64_from_str(strip_two(value)) IN
                           IF n = None THEN ParseErr("MalformedNumeric")
                           ELSE Parsed([r EXCEPT !.stroke_width = n])
               [] key = <<"stroke">> -> Parsed([r EXCEPT !.stroke = Some(value)])
               [] key = <<"font-family">> -> Parsed([r EXCEPT !.font_family = Some(value)])
               [] key = <<"font-size">> ->
                      LET n == px_from_str(value) IN
                      IF n = None THEN ParseErr("MalformedNumeric")
                      ELSE Parsed([r EXCEPT !.font_size = n])
               [] key = <<"stroke-dasharray">> ->
                      Parsed([r EXCEPT !.dash_array = Some(value)])
               [] OTHER -> Parsed(r)
    ELSE IF kv_str # <<>> THEN ParseErr("MalformedStyleSyntax")
    ELSE Parsed(r)

\* `for kv_str in s.split(';')`
RECURSIVE style_pieces(_, _)
style_pieces(r, pieces) ==
    IF pieces = <<>> THEN Parsed(r)
    ELSE LET one == style_kv(r, Head(pieces)) IN
         IF one.status = "ok" THEN style_pieces(one.value, Tail(pieces)) ELSE one

SvgStyle_from_str(s) == style_pieces(DefaultStyle, split(s, ";"))

\* --------------------------------------------- attributes, as written
Attr(k, v) == [key |-> k, val |-> v]

\* How an iteration ends when an attribute did not parse.
Unparsed(stack, r) == Step(stack, <<>>, r.status, r.error)

\* The attribute loop of <text>: x and y through px_from_str, style through
\* SvgStyle::from_str, each with `?`.
RECURSIVE text_attributes(_, _)
text_attributes(acc, attrs) ==
    IF attrs = <<>> THEN Parsed(acc)
    ELSE LET a == Head(attrs) IN
         IF a.key \in {"x", "y"}
         THEN LET n == px_from_str(a.val) IN
              IF n = None THEN ParseErr("MalformedNumeric")
              ELSE text_attributes([acc EXCEPT ![a.key] = n], Tail(attrs))
         ELSE IF a.key = "style"
         THEN LET st == SvgStyle_from_str(a.val) IN
              IF st.status # "ok" THEN st
              ELSE text_attributes([acc EXCEPT !.style = Some(st.value)], Tail(attrs))
         ELSE text_attributes(acc, Tail(attrs))

text_start_written(stack, attrs) ==
    LET r == text_attributes([x |-> None, y |-> None, style |-> None], attrs) IN
    IF r.status # "ok" THEN Unparsed(stack, r) ELSE text_start(stack, r.value)

StartTextWritten(attrs) ==
    Commit([kind |-> "Start", name |-> "text", attrs |-> attrs],
           text_start_written(events_stack, attrs),
           Append(nest, Opened("text", None)),
           balanced)

\* The items of a tspan x or y list: `.map(|i| ... .unwrap()).collect()`.
RECURSIVE tspan_items(_)
tspan_items(items) ==
    IF items = <<>> THEN Parsed(<<>>)
    ELSE LET n == px_from_str(Head(items))
             rest == tspan_items(Tail(items))
         IN  IF n = None THEN ParsePanic("unwrap on Err")
             ELSE IF rest.status # "ok" THEN rest
             ELSE Parsed(n \o rest.value)

RECURSIVE tspan_attributes(_, _)
tspan_attributes(acc, attrs) ==
    IF attrs = <<>> THEN Parsed(acc)
    ELSE LET a == Head(attrs) IN
         IF a.key \in {"x", "y"}
         THEN LET ns == tspan_items(split_whitespace(a.val)) IN
              IF ns.status # "ok" THEN ns
              ELSE tspan_attributes([acc EXCEPT ![a.key] = Some(ns.value)], Tail(attrs))
         ELSE tspan_attributes(acc, Tail(attrs))

tspan_start_written(stack, attrs) ==
    LET r == tspan_attributes([x |-> None, y |-> None], attrs) IN
    IF r.status # "ok" THEN Unparsed(stack, r) ELSE tspan_start(stack, r.value)

StartTspanWritten(attrs) ==
    Commit([kind |-> "Start", name |-> "tspan", attrs |-> attrs],
           tspan_start_written(events_stack, attrs),
           Append(nest, Opened("tspan", None)),
           balanced)

\* The numeric attributes of rect, circle and ellipse, each f64::from_str(..)?.
NumericKeys(name) ==
    CASE name = "rect" -> {"x", "y", "width", "height"}
      [] name = "circle" -> {"cx", "cy", "r"}
      [] name = "ellipse" -> {"cx", "cy", "rx", "ry"}

NoAttributes(name) == [k \in NumericKeys(name) \cup {"style"} |-> None]

RECURSIVE shape_attributes(_, _, _)
shape_attributes(name, acc, attrs) ==
    IF attrs = <<>> THEN Parsed(acc)
    ELSE LET a == Head(attrs) IN
         IF a.key \in NumericKeys(name)
         THEN LET n == f64_from_str(a.val) IN
              IF n = None THEN ParseErr("MalformedNumeric")
              ELSE shape_attributes(name, [acc EXCEPT ![a.key] = n], Tail(attrs))
         ELSE IF a.key = "style"
         THEN LET st == SvgStyle_from_str(a.val) IN
              IF st.status # "ok" THEN st
              ELSE shape_attributes(name, [acc EXCEPT !.style = Some(st.value)],
                                    Tail(attrs))
         ELSE shape_attributes(name, acc, Tail(attrs))

\* `events_stack.last().unwrap()` comes before the attribute loop.
empty_event_written(stack, name, attrs) ==
    IF stack = <<>> THEN Panic(stack, <<>>)
    ELSE LET r == shape_attributes(name, NoAttributes(name), attrs) IN
         IF r.status # "ok" THEN Unparsed(stack, r)
         ELSE empty_event(stack, name, r.value)

EmptyWritten(name, attrs) ==
    Commit([kind |-> "Empty", name |-> name, attrs |-> attrs],
           empty_event_written(events_stack, name, attrs),
           nest, balanced)

\* Documents with one element whose attributes are given as written, at the
\* top level or inside a group.  Numeric values: every string of up to
\* MaxNumLen characters over two digits and the letters of the units px, pt.
NumChars == Digits \cup {"p", "x", "t"}
NumStrings == UNION {[1..n -> NumChars] : n \in 0..MaxNumLen}

\* Pieces of a style string: empty, a paint, an unknown key, no colon, two
\* colons, a stroke width with a unit.
StylePieces ==
    {<<>>, <<"fill", ":", "red">>, <<"foo", ":", "bar">>, <<"junk">>,
     <<"stroke", ":", "blue", ":", "x">>, <<"stroke-width", ":", "1", "p", "x">>}

\* The pieces joined with `;`.
RECURSIVE join(_)
join(pieces) ==
    IF Len(pieces) = 1 THEN pieces[1]
    ELSE pieces[1] \o <<";">> \o join(Tail(pieces))

SyntaxStyles == {join(ps) : ps \in UNION {[1..n -> StylePieces] : n \in 1..MaxPieces}}
NumericStyles ==
    {<<k, ":">> \o v : k \in {"stroke-width", "font-size"}, v \in NumStrings}
WrittenStyles == SyntaxStyles \cup NumericStyles

WrittenTextAttrs ==
    {<<Attr("style", st)>> : st \in WrittenStyles}
    \cup {<<Attr(k, v)>> : k \in {"x", "y"}, v \in NumStrings}
WrittenTspanAttrs ==
    {<<Attr("x", v)>> : v \in NumStrings}
    \cup {<<Attr("y", <<"1", " ">> \o v)>> : v \in NumStrings}
WrittenShapeAttrs(name) ==
    {<<Attr(k, v)>> : k \in NumericKeys(name), v \in NumStrings}
    \cup {<<Attr("style", st)>> : st \in NumericStyles}

FirstElement == event.kind = "None" \/ (event.kind = "Start" /\ event.name = "svg")

InitWritten == Start(MaxWrittenEvents)

NextWritten ==
    \/ FirstElement /\ StartOther("svg")
    \/ FirstElement /\ \E attrs \in WrittenTextAttrs : StartTextWritten(attrs)
    \/ FirstElement /\ \E attrs \in WrittenTspanAttrs : StartTspanWritten(attrs)
    \/ FirstElement /\ \E name \in {"rect", "circle", "ellipse"} :
           \E attrs \in WrittenShapeAttrs(name) : EmptyWritten(name, attrs)
    \/ \E name \in {"text", "tspan"} : End(name)
    \/ Eof

SpecWritten == InitWritten /\ [][NextWritten]_vars

\* Texts in a <text> element, over every string of the characters the
\* escaping touches, a backslash and a letter; a text node is followed by markup.
EscapeAlphabet == {"$", "[", "]", "/", "#", "\\", "A"}
EscapeTexts == UNION {[1..n -> EscapeAlphabet] : n \in 0..MaxTextLen}

EscapeDocText == [x |-> Some(5), y |-> Some(7), style |-> None]

NextEscape ==
    \/ StartText(EscapeDocText)
    \/ End("text")
    \/ \E c \in EscapeTexts : event.kind # "Text" /\ Text(c)
    \/ Eof

SpecEscape == Init /\ [][NextEscape]_vars

\* =================================================================== claims
IsStart(name) == event.kind = "Start" /\ event.name = name
IsEnd == event.kind = "End"
IsText == event.kind = "Text"
IsEmpty(name) == event.kind = "Empty" /\ event.name = name

\* C1: every Start event of a `g` element pushes exactly one context entry,
\* whatever attributes the element carries; with no transform attribute the
\* pushed entry copies the transform of the entry that was on top.
C1_GroupOpenPushesOneEntry ==
    (IsStart("g") /\ status = "running" /\ pre_stack # <<>>)
        => /\ Len(events_stack) = Len(pre_stack) + 1
           /\ SubSeq(events_stack, 1, Len(pre_stack)) = pre_stack
           /\ OwnTransform(event.attrs) = None
                  => Last(events_stack).transform = Last(pre_stack).transform

\* A <g> with no attribute was read and the stack did not grow.
C1_NoAttributeNoPush ==
    IsStart("g") /\ event.attrs = <<>> /\ events_stack = pre_stack /\ pre_stack # <<>>

\* C2: in a document with balanced nesting, once the End event that closes a
\* g, text or tspan element has been handled, the stack has the depth and the
\* top transform it had just before that element opened.
C2_CloseRestoresStack ==
    (IsEnd /\ balanced /\ IsSome(closed)
        /\ Unwrap(closed).name \in {"g", "text", "tspan"})
        => /\ Len(events_stack) = Unwrap(closed).depth
           /\ Unwrap(closed).depth > 0
                  => Last(events_stack).transform = Unwrap(Unwrap(closed).top)

\* A <g> with two attributes was closed and one of its two entries is left.
C2_ClosedGroupLeavesEntry ==
    /\ IsEnd /\ balanced /\ IsSome(closed) /\ Unwrap(closed).name = "g"
    /\ Len(events_stack) = Unwrap(closed).depth + 1

\* The open elements are n groups, each with a transform attribute.
InGroups(n) ==
    /\ Len(nest) = n
    /\ \A i \in 1..n : nest[i].name = "g" /\ IsSome(nest[i].own)

\* C3: the entry on top after a `g` with transform attribute T opens carries
\* compose(transform that was on top, T); so in a balanced document a rect
\* whose open ancestors are a group with T1 and, inside it, a group with T2 has
\* each corner p printed as apply(R, apply(T1, apply(T2, p))), R the root
\* transform, whatever other attributes the groups carry.
C3_ComposeOuterInner ==
    /\ (IsStart("g") /\ status = "running" /\ IsSome(OwnTransform(event.attrs)))
           => Last(events_stack).transform =
                  transform_multiply(Last(pre_stack).transform,
                                     Unwrap(OwnTransform(event.attrs)))
    /\ (IsEmpty("rect") /\ status = "running" /\ balanced /\ InGroups(2))
           => LET T1 == Unwrap(nest[1].own)
                  T2 == Unwrap(nest[2].own)
                  x == OrDefault(event.attrs.x, 0)
                  y == OrDefault(event.attrs.y, 0)
                  w == OrDefault(event.attrs.width, 0)
                  h == OrDefault(event.attrs.height, 0)
                  Out(p) == apply_transform(apply_transform(apply_transform(p, T2), T1),
                                            root_transform)
              IN  /\ emitted[1].p1 = Out(<<x, y>>)
                  /\ emitted[1].p2 = Out(<<x + w, y + h>>)

\* A rect directly inside two transform-bearing groups, after an inner group
\* with no attribute was opened and closed.
C3_RectAfterClosedSibling ==
    /\ IsEmpty("rect") /\ status = "running" /\ balanced /\ InGroups(2)
    /\ Len(events_stack) = 2

\* The escaping the Emitter is to apply, as one pass over the original
\* characters: a backslash before each of $ [ ] / #, every other one copied.
EscapedChars == {"$", "[", "]", "/", "#"}
RECURSIVE EscapeOnce(_)
EscapeOnce(s) ==
    IF s = <<>> THEN <<>>
    ELSE (IF Head(s) \in EscapedChars THEN <<"\\", Head(s)>> ELSE <<Head(s)>>)
         \o EscapeOnce(Tail(s))

\* The characters of a text: a non-ASCII character is its two bytes together.
RECURSIVE Chars(_)
Chars(s) ==
    IF s = <<>> THEN <<>>
    ELSE IF Head(s) = "C3" THEN <<SubSeq(s, 1, 2)>> \o Chars(Tail(Tail(s)))
    ELSE <<SubSeq(s, 1, 1)>> \o Chars(Tail(s))

\* The nearest entry named text or tspan when the latest event was read.
HasContainer == find_text_parent(pre_stack) # None
Container == Unwrap(find_text_parent(pre_stack))
Anchors == Unwrap(Container.positions)

\* C4: a Text event whose nearest text/tspan entry is a text entry, or a tspan
\* entry with exactly one anchor, prints exactly one content primitive: the
\* whole string, at the container's first anchor transformed by the transform
\* on top of the stack when the event is read.
C4_WholeTextAtFirstAnchor ==
    (IsText /\ HasContainer
        /\ (Container.name = "text"
              \/ (Container.name = "tspan" /\ Len(Anchors) = 1)))
        => /\ status = "running"
           /\ Len(emitted) = 1
           /\ emitted[1].kind = "content"
           /\ emitted[1].text = EscapeOnce(event.content)
           /\ emitted[1].pos = apply_transform(Anchors[1], Last(pre_stack).transform)

\* Text in a <text> with a transformed group opened inside it: the top of the
\* stack carries another transform than the text entry.
C4_TextUnderInnerGroup ==
    /\ IsText /\ HasContainer /\ Container.name = "text"
    /\ Last(pre_stack).transform # Container.transform
    /\ Len(emitted) = 1 /\ status = "running"

\* C5: a Text event inside a tspan with n > 1 anchors raises no error and
\* prints min(m, n) content primitives for a string of m characters, the i-th
\* holding the i-th character alone at the i-th anchor transformed by the
\* transform on top of the stack.
C5_OneContentPerCharacter ==
    (IsText /\ HasContainer /\ Container.name = "tspan" /\ Len(Anchors) > 1)
        => /\ status = "running"
           /\ Len(emitted) = Min(Len(Chars(event.content)), Len(Anchors))
           /\ \A i \in 1..Len(emitted) :
                  /\ emitted[i].kind = "content"
                  /\ emitted[i].text = EscapeOnce(Chars(event.content)[i])
                  /\ emitted[i].pos =
                         apply_transform(Anchors[i], Last(pre_stack).transform)

\* A non-ASCII character in a tspan with several anchors ended the traversal.
C5_NonAsciiInSplitTspan ==
    /\ IsText /\ HasContainer /\ Container.name = "tspan" /\ Len(Anchors) > 1
    /\ status = "error" /\ error = "Utf8Error"

\* C6: a Text event with no entry named text or tspan on the stack ends the
\* traversal with the error MissingTextContainer and prints nothing; once the
\* traversal has ended no further event is handled.
C6_NoContainerAborts ==
    /\ [](IsText /\ ~HasContainer
            => status = "error" /\ error = "MissingTextContainer" /\ emitted = <<>>)
    /\ [][status = "running"]_vars

\* Text read inside a group, outside any text or tspan element.
C6_TextInsideGroupOnly ==
    /\ IsText /\ ~HasContainer /\ Len(pre_stack) > 1
    /\ status = "error" /\ error = "MissingTextContainer"

\* C7: a Text event whose nearest text/tspan entry has an empty anchor list
\* ends the traversal with the error MissingTextAnchor and prints nothing,
\* also when an enclosing text entry has an anchor.
C7_EmptyAnchorsAbort ==
    (IsText /\ HasContainer /\ Anchors = <<>>)
        => status = "error" /\ error = "MissingTextAnchor" /\ emitted = <<>>

\* Text in a tspan without anchors inside a <text> that has one.
C7_TspanWithoutAnchorInText ==
    /\ IsText /\ HasContainer /\ Container.name = "tspan" /\ Anchors = <<>>
    /\ \E i \in 1..Len(pre_stack) :
           pre_stack[i].name = "text" /\ Unwrap(pre_stack[i].positions) # <<>>
    /\ status = "error"

\* The line/curve segments of a path and the primitives printed for them.
IsSegmentPrimitive(e) == e.kind \in {"line", "bezier"}
Drawn(segments) == SelectSeq(segments, LAMBDA g : g.op \in {"LineTo", "CurveTo"})
HasStrokeField(st) == IsSome(st.stroke) \/ IsSome(st.stroke_width) \/ IsSome(st.dash_array)

NoStrokeSpecified(st) == st = None \/ ~HasStrokeField(Unwrap(st))

\* C9: every rect, circle and ellipse printed for an element that specifies
\* none of stroke paint, stroke thickness and dash pattern, an element with no
\* style attribute included, carries the marker `stroke: none`.
C9_NoStrokeMarker ==
    ((IsEmpty("rect") \/ IsEmpty("circle") \/ IsEmpty("ellipse"))
        /\ status = "running" /\ NoStrokeSpecified(event.attrs.style))
        => \A i \in 1..Len(emitted) :
               /\ IsSome(emitted[i].stroke)
               /\ Unwrap(emitted[i].stroke).marker = "none"

\* A circle with no style attribute was printed with no stroke part at all.
C9_CircleWithoutStyle ==
    /\ IsEmpty("circle") /\ event.attrs.style = None
    /\ Len(emitted) = 1 /\ emitted[1].stroke = None

\* C10: the text a content primitive carries is the one-pass escaping of the
\* original string: one backslash before each $ [ ] / #, every other
\* character, a backslash of the input included, copied unchanged.
C10_EscapeIsOnePass ==
    (IsText /\ status = "running")
        => \A i \in 1..Len(emitted) : emitted[i].text = EscapeOnce(event.content)

\* A text with a backslash of its own followed by characters to escape.
C10_BackslashThenSpecials ==
    /\ IsText /\ event.content = <<"\\", "$", "[">>
    /\ Len(emitted) = 1
    /\ emitted[1].text = <<"\\", "\\", "$", "\\", "[">>

\* The names handle_event has an arm for.
RecognizedNames == {"g", "text", "tspan", "rect", "circle", "ellipse", "path"}
IsUnrecognized ==
    event.kind \in {"Start", "End", "Empty"} /\ event.name \notin RecognizedNames

\* C14: an open, close or empty event of an element whose name is none of g,
\* text, tspan, rect, circle, ellipse, path raises no error, prints no
\* primitive and leaves the stack as it was.
C14_UnrecognizedElementIsInert ==
    IsUnrecognized
        => status = "running" /\ emitted = <<>> /\ events_stack = pre_stack

\* The close of an element named `root` popped the root entry.
C14_RootClosePopsRootEntry ==
    IsEnd /\ event.name = "root" /\ Len(pre_stack) = 1 /\ events_stack = <<>>

\* C15: an End event pops exactly one entry when its name equals the name of
\* the top entry, and otherwise leaves the whole stack unchanged.
C15_ClosePopsMatchingTopOnly ==
    IsEnd
        => IF pre_stack # <<>> /\ Last(pre_stack).name = event.name
           THEN events_stack = Front(pre_stack)
           ELSE events_stack = pre_stack

\* A </g> met two `g` entries on top of the stack and removed the upper one.
C15_CloseOfTwoEntryGroup ==
    /\ IsEnd /\ event.name = "g" /\ Len(pre_stack) >= 3
    /\ Last(pre_stack).name = "g" /\ pre_stack[Len(pre_stack) - 1].name = "g"
    /\ events_stack = Front(pre_stack)

\* C16: on every finite event stream the traversal ends, and the end-of-stream
\* event returns Ok whatever the stack depth, with elements left open and with
\* surplus closes.
C16_EndsAndEofReturnsOk ==
    /\ <>(status # "running")
    /\ [](event.kind = "Eof" => status = "ok")

\* End-of-stream after a surplus close, with entries above the root entry.
C16_EofWithOpenAndSurplus ==
    event.kind = "Eof" /\ status = "ok" /\ Len(events_stack) > 1 /\ ~balanced

\* C17: for all affine transforms O and I and points p over bounded integers,
\* applying compose(O, I) to p equals applying I to p and then O to the result.
C17_ComposeThenApply ==
    (event.kind = "Compose" /\ emitted # <<>>)
        => emitted[1] = apply_transform(apply_transform(event.point, event.inner),
                                        root_transform)

\* A product of two transforms that do not commute was applied to a point.
C17_NonCommutingPair ==
    /\ event.kind = "Compose" /\ emitted # <<>>
    /\ transform_multiply(root_transform, event.inner)
           # transform_multiply(event.inner, root_transform)
    /\ emitted[1] # apply_transform(apply_transform(event.point, root_transform),
                                     event.inner)

\* The line/bezier primitives among what an event printed.
Primitives == SelectSeq(emitted, IsSegmentPrimitive)
\* The indices of the line and curve segments of a path, in order.
DrawnAt(segments) ==
    SelectSeq([i \in 1..Len(segments) |-> i],
              LAMBDA i : segments[i].op \in {"LineTo", "CurveTo"})
\* The target of a move, line or curve segment, in output space.
Target(seg, t) == apply_transform(<<seg.x, seg.y>>, t)

\* C18: in a merged (filled) path the style is applied once, at group level:
\* the merge-path header carries the fill and the stroke, and no line/bezier
\* body inside the group carries a stroke descriptor of its own.
C18_MergedBodiesCarryNoStroke ==
    (IsEmpty("path") /\ status = "running" /\ emitted # <<>>
        /\ emitted[1].kind = "merge-path")
        => /\ emitted[1].fill = opt_fill(event.attrs.style)
           /\ emitted[1].stroke = opt_stroke(event.attrs.style)
           /\ \A i \in 2..(Len(emitted) - 1) :
                  ~(IsSome(emitted[i].stroke)
                      /\ Unwrap(emitted[i].stroke).marker = "stroke")

\* A line inside a merge-path group repeats the dash descriptor of the header.
C18_BodyRepeatsHeaderStroke ==
    /\ IsEmpty("path") /\ Len(emitted) >= 3
    /\ emitted[1].kind = "merge-path" /\ emitted[2].kind = "line"
    /\ Unwrap(emitted[1].stroke).dashed
    /\ emitted[2].stroke = emitted[1].stroke

\* C19: within one path each line/bezier starts at the output-space point of
\* the segment just before it, the transformed target of a move or the
\* transformed end point of the previous line/curve, so that consecutive
\* segments with no move between them connect exactly.
C19_SegmentsStartAtPreviousPoint ==
    (IsEmpty("path") /\ status = "running" /\ pre_stack # <<>>)
        => LET segs == Unwrap(event.attrs.d)
               t == Last(pre_stack).transform
               at == DrawnAt(segs)
               prims == Primitives
           IN  /\ Len(prims) = Len(at)
               /\ \A k \in 1..Len(at) :
                      /\ prims[k].p2 = Target(segs[at[k]], t)
                      /\ (at[k] > 1 /\ segs[at[k] - 1].op # "ClosePath")
                             => prims[k].p1 = Target(segs[at[k] - 1], t)
                      /\ (k > 1 /\ at[k] = at[k - 1] + 1)
                             => prims[k].p1 = prims[k - 1].p2

\* Inside a scaled group: move, line, move, line; the second line starts at
\* the target of the second move, not where the first line ended.
C19_LineAfterSecondMove ==
    /\ IsEmpty("path") /\ Len(pre_stack) = 2
    /\ Last(pre_stack).transform.a # 1
    /\ Unwrap(event.attrs.d) = <<MoveTo(1, 1), LineTo(10, 0), MoveTo(1, 1), LineTo(10, 0)>>
    /\ Len(Primitives) = 2
    /\ Primitives[2].p1 = Target(MoveTo(1, 1), Last(pre_stack).transform)
    /\ Primitives[2].p1 # Primitives[1].p2

IsStyledText ==
    /\ IsStart("text") /\ pre_stack # <<>>
    /\ Len(event.attrs) = 1 /\ event.attrs[1].key = "style"
WrittenStyle == event.attrs[1].val
HasColon(piece) == \E i \in 1..Len(piece) : piece[i] = ":"
KeyOf(piece) == split(piece, ":")[1]
ValueOf(piece) == split(piece, ":")[2]
NumericStyleKeys == {<<"stroke-width">>, <<"font-size">>}
KnownStyleKeys ==
    NumericStyleKeys \cup {<<"fill">>, <<"fill-rule">>, <<"stroke">>, <<"font-family">>,
                           <<"stroke-dasharray">>}
\* One digit or more, then nothing, `px` or `pt`.
WellFormedNumber(v) ==
    \E n \in 1..Len(v) :
        /\ \A i \in 1..n : v[i] \in Digits
        /\ SubSeq(v, n + 1, Len(v)) \in {<<>>, <<"p", "x">>, <<"p", "t">>}
\* The number a well-formed value denotes.
NumberOf(v) == Decimal(SelectSeq(v, LAMBDA c : c \in Digits))
\* The pieces of the style string the latest <text> carried.
StylePiecesWritten ==
    LET ps == split(WrittenStyle, ";") IN {ps[i] : i \in 1..Len(ps)}
NumericValuesWellFormed ==
    \A piece \in StylePiecesWritten :
        (HasColon(piece) /\ KeyOf(piece) \in NumericStyleKeys)
            => WellFormedNumber(ValueOf(piece))

\* C11: parsing a style string whose numeric values are well formed fails
\* exactly when some non-empty piece between semicolons has no colon; the
\* empty string gives the record with every field absent, and a piece with an
\* unknown key sets no field.
C11_StyleFailsIffPieceLacksColon ==
    (IsStyledText /\ NumericValuesWellFormed)
        => /\ status # "running"
                  <=> \E piece \in StylePiecesWritten : piece # <<>> /\ ~HasColon(piece)
           /\ (status = "running"
                  /\ \A piece \in StylePiecesWritten :
                         HasColon(piece) => KeyOf(piece) \notin KnownStyleKeys)
                  => Last(events_stack).style = Some(DefaultStyle)

\* The style `stroke-width:12`, every piece with a colon, ended the conversion.
C11_UnitlessWidthFails ==
    /\ IsStyledText /\ WrittenStyle = <<"stroke-width", ":", "1", "2">>
    /\ status = "error" /\ error = "MalformedNumeric"

\* The style of the latest <text> is one numeric field with a well-formed value.
IsNumericStyledText ==
    /\ IsStyledText /\ Len(WrittenStyle) > 2
    /\ <<WrittenStyle[1]>> \in NumericStyleKeys /\ WrittenStyle[2] = ":"
    /\ WellFormedNumber(SubSeq(WrittenStyle, 3, Len(WrittenStyle)))

\* C12: a stroke-width or font-size written as a number n with no unit, with
\* `px` or with `pt` parses to n.
C12_NumberWithOrWithoutUnit ==
    IsNumericStyledText
        => /\ status = "running"
           /\ LET n == NumberOf(SubSeq(WrittenStyle, 3, Len(WrittenStyle)))
                  st == Unwrap(Last(events_stack).style)
              IN  IF WrittenStyle[1] = "stroke-width"
                  THEN st.stroke_width = Some(n)
                  ELSE st.font_size = Some(n)

\* The style `font-size:1pt` ended the conversion with an error.
C12_PointSizeFails ==
    /\ IsStyledText /\ WrittenStyle = <<"font-size", ":", "1", "p", "t">>
    /\ status = "error" /\ error = "MalformedNumeric"

\* The numeric values the latest event carried, as written: coordinates, the
\* items of a tspan list, stroke-width and font-size values.
WrittenNumbers ==
    IF event.kind \notin {"Start", "Empty"} \/ event.name = "svg" THEN {}
    ELSE LET a == event.attrs[1] IN
         IF a.key = "style"
         THEN {ValueOf(piece) : piece \in
                  {q \in StylePiecesWritten : HasColon(q) /\ KeyOf(q) \in NumericStyleKeys}}
         ELSE IF event.name = "tspan"
         THEN LET items == split_whitespace(a.val) IN {items[i] : i \in 1..Len(items)}
         ELSE {a.val}

\* C13: every numeric attribute or style value that does not parse ends the
\* conversion with the error result MalformedNumeric; the process never
\* crashes and never goes on with some other value.
C13_MalformedNumberIsAnError ==
    (pre_stack # <<>> /\ \E v \in WrittenNumbers : ~WellFormedNumber(v))
        => status = "error" /\ error = "MalformedNumeric"

\* A tspan whose x list holds the item `1p` crashed the process.
C13_TspanItemPanics ==
    /\ IsStart("tspan") /\ event.attrs = <<Attr("x", <<"1", "p">>)>>
    /\ status = "panic"

\* The style of the highest of the entries below position i that carries one.
StyleBelow(stack, i) ==
    LET styled == {j \in 1..(i - 1) : IsSome(stack[j].style)} IN
    IF styled = {} THEN None
    ELSE stack[CHOOSE j \in styled : \A k \in styled : k <= j].style

\* C21: the entry pushed for a tspan carries the style of the nearest entry
\* below it, from the top toward the root, that carries a style, and none when
\* no entry carries one; every content printed for text inside that tspan
\* uses that style, and has no style annotation when it is absent.
C21_TspanInheritsNearestStyle ==
    /\ \A i \in 1..Len(events_stack) :
           events_stack[i].name = "tspan"
               => events_stack[i].style = StyleBelow(events_stack, i)
    /\ (IsText /\ HasContainer /\ Container.name = "tspan")
           => \A i \in 1..Len(emitted) :
                  /\ emitted[i].text_style = text_style(Container.style)
                  /\ Container.style = None => emitted[i].text_style = None

\* Text in a tspan inside a styled <text>: the tspan entry has the style of
\* the text entry below it, and the content shows it.
C21_ContentInStyledTspan ==
    /\ IsText /\ HasContainer /\ Container.name = "tspan"
    /\ Len(pre_stack) = 3 /\ pre_stack[2].style = Some(FontStyle)
    /\ Container.style = Some(FontStyle)
    /\ emitted # <<>> /\ Unwrap(emitted[1].text_style).fill = Some("red")

\* The transform on top of the stack when the latest event was read.
TopTransform == Last(pre_stack).transform
IsAxisAligned(t) == t.b = 0 /\ t.c = 0

\* C22: a circle of radius r under a transform with unequal x and y scale
\* (a on x, d on y, b = c = 0) is printed with both radii, a*r on x and d*r
\* on y.
C22_CircleCarriesBothRadii ==
    (IsEmpty("circle") /\ status = "running" /\ pre_stack # <<>>
        /\ IsAxisAligned(TopTransform) /\ TopTransform.a # TopTransform.d)
        => LET r == OrDefault(event.attrs.r, 0) IN
           emitted[1].radius = <<TopTransform.a * r, TopTransform.d * r>>

\* A circle of radius 5 inside a group scaled by 2 and 3 has the one radius 10.
C22_CircleUnderUnequalScale ==
    /\ IsEmpty("circle") /\ pre_stack # <<>> /\ TopTransform = ScaleTransform
    /\ event.attrs.r = Some(5)
    /\ emitted[1].radius = <<10>>

\* C23: the context stack is never empty: after any sequence of events, with
\* close events of any name and surplus closes, the root entry is at the
\* bottom of the stack, and every read of the top entry succeeds.
C23_RootEntryStays ==
    /\ events_stack # <<>>
    /\ events_stack[1] = RootEntry(root_transform)
    /\ status # "panic"

\* A shape read after the close of an element named `root` found no entry.
C23_ShapeOnEmptyStack ==
    /\ event.kind = "Empty" /\ event.name \in {"rect", "circle", "ellipse", "path"}
    /\ pre_stack = <<>> /\ status = "panic"

\* The radii the latest circle or ellipse was given.
SourceRadii ==
    IF event.name = "circle" THEN {OrDefault(event.attrs.r, 0)}
    ELSE {OrDefault(event.attrs.rx, 0), OrDefault(event.attrs.ry, 0)}

\* C24: every radius printed for a circle or ellipse whose radii are not
\* negative is not negative, under every scale/translate transform, a negative
\* scale factor such as the y flip of the root transform included.
C24_RadiiAreNotNegative ==
    ((IsEmpty("circle") \/ IsEmpty("ellipse")) /\ status = "running"
        /\ pre_stack # <<>> /\ IsAxisAligned(TopTransform)
        /\ \A r \in SourceRadii : r >= 0)
        => \A i \in 1..Len(emitted[1].radius) : emitted[1].radius[i] >= 0

\* An ellipse at the top level under the root transform that flips y: its y
\* radius is negative.
C24_EllipseUnderRootFlip ==
    /\ IsEmpty("ellipse") /\ Len(pre_stack) = 1 /\ root_transform = FlipTransform
    /\ event.attrs.ry = Some(3)
    /\ emitted[1].radius[2] = -3

====
